---- MODULE Spec2Model ----
(***************************************************************************)
(* Room / client membership and broadcast core of the chat server          *)
(* (src/server/core/domain, src/server/core/application).                  *)
(*                                                                         *)
(* Two specifications share the state and the domain operators:            *)
(*   Spec        the server: one asyncio task per connection running       *)
(*               ChatRunner._handle_client_connection; an action is the    *)
(*               code a task runs between two suspension points (await     *)
(*               recv / send / close), which the event loop never          *)
(*               interleaves with another task.                            *)
(*   DomainSpec  a single task calling the domain API (Client, Room,       *)
(*               RoomManager) in any order with any arguments, each call   *)
(*               run to completion.                                        *)
(*   GenSpec     RoomManager.create_room called again and again, the loop  *)
(*               of _generate_room_id run one iteration at a step.         *)
(*   ObserverSpec  the domain API called by a caller that may add a client *)
(*               to several rooms.                                         *)
(*   DestroySpec the same calls, Client.destroy run one observer call, the *)
(*               close and the release at a step.                          *)
(*   RegistrySpec  register_on_destroy and unregister_on_destroy called    *)
(*               directly on one client, with any observer.                *)
(*   DeliverySpec  rooms built and broadcast to through the domain API,    *)
(*               with the frames each connection carries to its peer.      *)
(***************************************************************************)
EXTENDS Integers, Sequences, FiniteSets, TLC

\* ------------------------------------------------------------------ bounds
NumConns == 2
NumIds == 2
MaxCallbacks == 4             \* longest observer list RegistrySpec builds
MaxBroadcasts == 3            \* broadcasts DeliverySpec issues

Conns == 1..NumConns          \* connections; a Client is named by its connection
RoomIds == 1..NumIds          \* the ids the id generator can produce
Names == {"eve", "bob"}
Texts == {"hello", "bye"}
Rules == {"CREATE", "RANDOM", "ID"}

NoRoom == 0
max_retries == 1000
NoName == "<unset>"
OK == "ok"

VARIABLES
    rooms_by_id,   \* RoomManager._rooms_by_id: id -> [id, clients]
    clients,       \* Client objects, by connection
    conn,          \* transport state of each connection
    pc,            \* where each connection's handler task is suspended
    exc,           \* origin of the HandlerException an `except` block is handling
    room_of,       \* the handler's local `room` (set once process_room_entry added the client)
    bcast,         \* the Room.broadcast call made by the last step, if any
    sent,          \* the direct ClientConnection.send made by the last step, if any
    last,          \* the call made by the last step: a domain API call (DomainSpec),
                   \* or the entry request a handler processed (Spec)
    gen,           \* the locals of a running RoomManager.create_room (GenSpec)
    destroying,    \* the locals of a running Client.destroy (DestroySpec)
    announced,     \* the online_count of the ROOM_LEAVE a handler has broadcast for its
                   \* client, until it destroys the client
    wire           \* the frames written to each connection and those its peer has read
                   \* (DeliverySpec)

vars == <<rooms_by_id, clients, conn, pc, exc, room_of, bcast, sent, last, gen, destroying, announced, wire>>

\* ---------------------------------------------------------------- helpers
SetToSeq(S) ==
    LET RECURSIVE build(_)
        build(T) == IF T = {} THEN <<>>
                    ELSE LET x == CHOOSE y \in T : \A z \in T : y <= z
                         IN <<x>> \o build(T \ {x})
    IN build(S)

Range(f) == {f[i] : i \in DOMAIN f}

\* list.remove(x): drops the first occurrence
RemoveFirst(seq, x) ==
    LET i == CHOOSE j \in 1..Len(seq) : seq[j] = x /\ \A h \in 1..(j - 1) : seq[h] # x
    IN SubSeq(seq, 1, i - 1) \o SubSeq(seq, i + 1, Len(seq))

Result(e, R, C) == [err |-> e, rooms |-> R, clients |-> C]

\* ----------------------------------------------------------------- Client
NoClient == [made |-> FALSE, is_active |-> FALSE, name |-> NoName,
             callbacks |-> <<>>, cleared |-> FALSE]

\* Client.__init__
Client(name) == [made |-> TRUE, is_active |-> TRUE, name |-> name,
                 callbacks |-> <<>>, cleared |-> FALSE]

\* Client.register_on_destroy; a callback is the bound method Room.remove of room k
register_on_destroy(C, c, k) == [C EXCEPT ![c].callbacks = Append(@, k)]

\* variant of unregister_on_destroy that drops every occurrence of the callback
unregister_on_destroy_all(C, c, k) ==
    IF k \in Range(C[c].callbacks)
    THEN [err |-> OK, clients |-> [C EXCEPT ![c].callbacks = SelectSeq(@, LAMBDA x : x # k)]]
    ELSE [err |-> "ValueError", clients |-> C]

\* Client.unregister_on_destroy
unregister_on_destroy(C, c, k) ==
    IF k \in Range(C[c].callbacks)
    THEN [err |-> OK, clients |-> [C EXCEPT ![c].callbacks = RemoveFirst(@, k)]]
    ELSE [err |-> "ValueError", clients |-> C]

\* ------------------------------------------------------------------- Room
\* Room.__init__; `pos` is the place of the room's entry in the insertion order of the
\* dict RoomManager._rooms_by_id, which is the order min() scans the rooms in
NewRoom(k, n) == [id |-> k, clients |-> {}, pos |-> n]

\* variant of Room.has_name that finds no holder of the name
has_name_never(R, C, k, name) == FALSE

\* Room.has_name
has_name(R, C, k, name) == \E c \in R[k].clients : C[c].name = name

\* Room.__len__
RoomLen(R, k) == Cardinality(R[k].clients)

\* variant of Room.add that inserts the client before it tests the name
Room_add_insert_first(R, C, k, c) ==
    IF ~C[c].is_active
    THEN Result("InactiveClientJoinAttempt", R, C)
    ELSE IF has_name(R, C, k, C[c].name)
    THEN Result("NameInRoomOccupied", [R EXCEPT ![k].clients = @ \cup {c}], C)
    ELSE Result(OK, [R EXCEPT ![k].clients = @ \cup {c}], register_on_destroy(C, c, k))

\* variant of Room.add that inserts the client into every room of the index
Room_add_all_rooms(R, C, k, c) ==
    IF ~C[c].is_active
    THEN Result("InactiveClientJoinAttempt", R, C)
    ELSE IF has_name(R, C, k, C[c].name)
    THEN Result("NameInRoomOccupied", R, C)
    ELSE Result(OK, [j \in DOMAIN R |-> [R[j] EXCEPT !.clients = @ \cup {c}]],
                register_on_destroy(C, c, k))

\* variant of Room.add that registers the observer twice
Room_add_register_twice(R, C, k, c) ==
    IF ~C[c].is_active
    THEN Result("InactiveClientJoinAttempt", R, C)
    ELSE IF has_name(R, C, k, C[c].name)
    THEN Result("NameInRoomOccupied", R, C)
    ELSE Result(OK, [R EXCEPT ![k].clients = @ \cup {c}],
                register_on_destroy(register_on_destroy(C, c, k), c, k))

\* variant of Room.add that tests the name first: reading the name of a client whose
\* state was released raises AttributeError
Room_add_name_first(R, C, k, c) ==
    IF C[c].cleared
    THEN Result("AttributeError", R, C)
    ELSE IF has_name(R, C, k, C[c].name)
    THEN Result("NameInRoomOccupied", R, C)
    ELSE IF ~C[c].is_active
    THEN Result("InactiveClientJoinAttempt", R, C)
    ELSE Result(OK, [R EXCEPT ![k].clients = @ \cup {c}], register_on_destroy(C, c, k))

\* Room.add
Room_add(R, C, k, c) ==
    IF ~C[c].is_active
    THEN Result("InactiveClientJoinAttempt", R, C)
    ELSE IF has_name(R, C, k, C[c].name)
    THEN Result("NameInRoomOccupied", R, C)
    ELSE Result(OK, [R EXCEPT ![k].clients = @ \cup {c}], register_on_destroy(C, c, k))

\* variant of Room.remove that leaves the observer registered
Room_remove_keep_observer(R, C, k, c) ==
    IF c \in R[k].clients
    THEN Result(OK, [R EXCEPT ![k].clients = @ \ {c}], C)
    ELSE Result("ValueError", R, C)

\* variant of Room.remove that returns silently for a client that is not a member
Room_remove_silent(R, C, k, c) ==
    IF c \in R[k].clients
    THEN LET u == unregister_on_destroy(C, c, k)
         IN Result(u.err, [R EXCEPT ![k].clients = @ \ {c}], u.clients)
    ELSE Result(OK, R, C)

\* variant of Room.remove that takes a room out of the index when its last member leaves
Room_remove_drop_empty(R, C, k, c) ==
    IF c \in R[k].clients
    THEN LET u == unregister_on_destroy(C, c, k)
         IN Result(u.err,
                   IF R[k].clients = {c}
                   THEN [j \in DOMAIN R \ {k} |-> R[j]]
                   ELSE [R EXCEPT ![k].clients = @ \ {c}],
                   u.clients)
    ELSE Result("ValueError", R, C)

\* variant of Room.remove that unregisters the observer but keeps the client in the set
Room_remove_keep_member(R, C, k, c) ==
    IF c \in R[k].clients
    THEN LET u == unregister_on_destroy(C, c, k)
         IN Result(u.err, R, u.clients)
    ELSE Result("ValueError", R, C)

\* Room.remove
Room_remove(R, C, k, c) ==
    IF c \in R[k].clients
    THEN LET u == unregister_on_destroy(C, c, k)
         IN Result(u.err, [R EXCEPT ![k].clients = @ \ {c}], u.clients)
    ELSE Result("ValueError", R, C)

\* variant of the broadcaster that stops writing at the first connection that is not open
Broadcaster_broadcast_abort(N, targets, message) ==
    [i \in 1..Len(targets) |->
        [to |-> targets[i], msg |-> message,
         ok |-> \A j \in 1..i : N[targets[j]].state = "open"]]

\* websockets.broadcast as WebSocketBroadcaster.broadcast uses it: one write per
\* connection handed over, skipped or failed (and only logged) when the connection
\* is not open; nothing is raised to the caller.
Broadcaster_broadcast(N, targets, message) ==
    [i \in 1..Len(targets) |->
        [to |-> targets[i], msg |-> message, ok |-> N[targets[i]].state = "open"]]

\* variant of Room.broadcast that hands over only the members whose connection is open
Room_broadcast_open_only(R, N, k, message) ==
    [room |-> k, msg |-> message,
     attempts |-> Broadcaster_broadcast(
         N, SetToSeq({c \in R[k].clients : N[c].state = "open"}), message)]

\* Room.broadcast
Room_broadcast(R, N, k, message) ==
    [room |-> k, msg |-> message,
     attempts |-> Broadcaster_broadcast(N, SetToSeq(R[k].clients), message)]

NoBcast == [room |-> NoRoom, msg |-> <<>>, attempts |-> <<>>]

\* ------------------------------------------------------------ RoomManager
\* variant of _generate_room_id without the has_id test: any draw is returned
generate_room_id_any(R) == {[err |-> OK, id |-> k] : k \in RoomIds}

\* RoomManager._generate_room_id: the generator draws at random, so the loop can return
\* any id that is not in the index; it can run out of its max_retries attempts only if
\* some draw can collide, that is when the index is not empty.
generate_room_id(R) ==
    {[err |-> OK, id |-> k] : k \in RoomIds \ DOMAIN R}
        \cup (IF DOMAIN R # {} THEN {[err |-> "ValueError", id |-> NoRoom]} ELSE {})

AllocResult(e, R, k) == [err |-> e, rooms |-> R, room |-> k]

\* RoomManager.create_room, for the outcome `g` of _generate_room_id
create_room(R, g) ==
    IF g.err # OK
    THEN AllocResult(g.err, R, NoRoom)
    ELSE LET n == IF g.id \in DOMAIN R THEN R[g.id].pos ELSE Cardinality(DOMAIN R) + 1
         IN AllocResult(OK, [k \in DOMAIN R \cup {g.id} |->
                                IF k = g.id THEN NewRoom(g.id, n) ELSE R[k]], g.id)

\* variant of choose_least that returns the first room of the index, whatever its length
choose_least_first(R) ==
    IF DOMAIN R = {}
    THEN AllocResult("NoRoomsAvailable", R, NoRoom)
    ELSE AllocResult(OK, R, CHOOSE k \in DOMAIN R : \A j \in DOMAIN R : R[k].pos <= R[j].pos)

\* RoomManager.choose_least: min(rooms, key=len) returns the first room of minimal
\* length in the dict's order
choose_least(R) ==
    IF DOMAIN R = {}
    THEN AllocResult("NoRoomsAvailable", R, NoRoom)
    ELSE LET least == {j \in DOMAIN R : \A i \in DOMAIN R : RoomLen(R, j) <= RoomLen(R, i)}
         IN AllocResult(OK, R, CHOOSE k \in least : \A j \in least : R[k].pos <= R[j].pos)

\* RoomManager.has_id
has_id(R, id) == id \in DOMAIN R

\* variant of select_by_id that registers a room under an id it does not find
select_by_id_create(R, id) ==
    IF ~has_id(R, id) THEN create_room(R, [err |-> OK, id |-> id]) ELSE AllocResult(OK, R, id)

\* RoomManager.select_by_id
select_by_id(R, id) ==
    IF ~has_id(R, id)
    THEN AllocResult("NoRoomWithID", R, NoRoom)
    ELSE AllocResult(OK, R, R[id].id)

\* RoomManager.allocate_room: the set of its possible outcomes
allocate_room(R, room_rule, id) ==
    CASE room_rule = "CREATE" -> {create_room(R, g) : g \in generate_room_id(R)}
      [] room_rule = "RANDOM" ->
            IF choose_least(R).err = "NoRoomsAvailable"
            THEN {create_room(R, g) : g \in generate_room_id(R)}
            ELSE {choose_least(R)}
      [] room_rule = "ID" -> {select_by_id(R, id)}
      [] OTHER -> {AllocResult("InvalidRoomRule", R, NoRoom)}

\* --------------------------------------------------------- Client.destroy
\* the loop over the snapshot of the callbacks; a callback that raises ends destroy
RECURSIVE run_callbacks(_, _, _, _)
run_callbacks(R, C, snapshot, c) ==
    IF snapshot = <<>> THEN Result(OK, R, C)
    ELSE LET r == Room_remove(R, C, Head(snapshot), c)
         IN IF r.err # OK THEN r ELSE run_callbacks(r.rooms, r.clients, Tail(snapshot), c)

\* variant of destroy that calls no observer
destroy_notify_nobody(R, C, c) == Result(OK, R, C)

\* Client.destroy up to `await self._conn.close()`
destroy_notify(R, C, c) ==
    IF C[c].is_active
    THEN run_callbacks(R, C, C[c].callbacks, c)
    ELSE Result(OK, R, C)

\* ClientConnection.close
conn_close(N, c) ==
    [N EXCEPT ![c] = [state |-> "closed", closes |-> IF @.closes < 2 THEN @.closes + 1 ELSE 2]]

\* Client.destroy after the close: self.__dict__.clear(); self._is_active = False
destroy_release(C, c) ==
    [C EXCEPT ![c] = [made |-> TRUE, is_active |-> FALSE, name |-> NoName,
                      callbacks |-> <<>>, cleared |-> TRUE]]

\* variant of destroy without the `if self._is_active` guard
destroy_unguarded(R, C, N, c) ==
    LET n == run_callbacks(R, C, C[c].callbacks, c)
    IN [err |-> n.err, rooms |-> n.rooms,
        clients |-> IF n.err = OK THEN destroy_release(n.clients, c) ELSE n.clients,
        conn |-> IF n.err = OK THEN conn_close(N, c) ELSE N]

\* Client.destroy, the whole call
destroy(R, C, N, c) ==
    IF C[c].is_active
    THEN LET n == destroy_notify(R, C, c)
         IN [err |-> n.err, rooms |-> n.rooms,
             clients |-> IF n.err = OK THEN destroy_release(n.clients, c) ELSE n.clients,
             conn |-> IF n.err = OK THEN conn_close(N, c) ELSE N]
    ELSE [err |-> OK, rooms |-> R, clients |-> C, conn |-> N]

\* ----------------------------------------------------------------- events
\* create_json_payload(Events.X, ...)
Event(e, sender, count, text) ==
    [event |-> e, sender |-> sender, online_count |-> count, message |-> text]

NoSend == [to |-> 0, event |-> "", ok |-> FALSE]
Send(N, c, e) == [to |-> c, event |-> e, ok |-> N[c].state = "open"]

NoCall == [op |-> "", c |-> 0, room |-> NoRoom, arg |-> "", id |-> NoRoom, err |-> OK,
           text |-> ""]
Call(op, c, k, arg, id, e) ==
    [op |-> op, c |-> c, room |-> k, arg |-> arg, id |-> id, err |-> e, text |-> ""]

\* nothing was written to a connection
NoFrames == [issued |-> 0,
             outbox |-> [c \in Conns |-> <<>>],
             received |-> [c \in Conns |-> <<>>]]

\* no ROOM_LEAVE is waiting for its client to be destroyed
NotAnnounced == -1

\* no destroy is running
NotDestroying == [pc |-> "idle", c |-> 0, snapshot |-> <<>>, called |-> <<>>]

\* no create_room is running
GenIdle == [pc |-> "idle", retries |-> 0, attempts |-> 0, id |-> NoRoom]

\* ------------------------------------------------------------------- Init
InitState ==
    /\ rooms_by_id = <<>>
    /\ clients = [c \in Conns |-> NoClient]
    /\ conn = [c \in Conns |-> [state |-> "open", closes |-> 0]]
    /\ exc = [c \in Conns |-> "none"]
    /\ room_of = [c \in Conns |-> NoRoom]
    /\ bcast = NoBcast
    /\ sent = NoSend
    /\ last = NoCall
    /\ gen = GenIdle
    /\ destroying = NotDestroying
    /\ announced = [c \in Conns |-> NotAnnounced]
    /\ wire = NoFrames

\* ChatRunner.__init__, and one handler task per accepted connection, each suspended in
\* the `await conn.recv()` of receive_room_entry_request
Init == InitState /\ pc = [c \in Conns |-> "recv_entry"]

\* ------------------------------------------------ the connection handler
\* recv raises ClientDisconnected in receive_room_entry_request: the first `except`
\* block; report_error returns at once, the connection is closed and the handler returns
receive_disconnected(s) ==
    /\ pc[s] = "recv_entry"
    /\ conn[s].state # "open"
    /\ conn' = conn_close(conn, s)
    /\ pc' = [pc EXCEPT ![s] = "done"]
    /\ bcast' = NoBcast
    /\ sent' = NoSend
    /\ last' = Call("receive_room_entry_request", s, NoRoom, "", NoRoom, "ClientDisconnected")
    /\ UNCHANGED <<rooms_by_id, clients, exc, room_of>>
    /\ UNCHANGED <<gen, destroying, announced, wire>>

\* variant of the entry-request stage that constructs the Client before it validates
receive_invalid_client_made(s) ==
    /\ pc[s] = "recv_entry"
    /\ conn[s].state = "open"
    /\ \E name \in Names : clients' = [clients EXCEPT ![s] = Client(name)]
    /\ exc' = [exc EXCEPT ![s] = "ValidationError"]
    /\ pc' = [pc EXCEPT ![s] = "report_error_request"]
    /\ bcast' = NoBcast
    /\ sent' = NoSend
    /\ last' = Call("receive_room_entry_request", s, NoRoom, "", NoRoom, "ValidationError")
    /\ UNCHANGED <<rooms_by_id, conn, room_of, gen, destroying, announced, wire>>

\* parse_room_entry_payload raises a ValidationError: the first `except` block, up to
\* the `await conn.send(error_event_json)` of report_error
receive_invalid(s) ==
    /\ pc[s] = "recv_entry"
    /\ conn[s].state = "open"
    /\ exc' = [exc EXCEPT ![s] = "ValidationError"]
    /\ pc' = [pc EXCEPT ![s] = "report_error_request"]
    /\ bcast' = NoBcast
    /\ sent' = NoSend
    /\ last' = Call("receive_room_entry_request", s, NoRoom, "", NoRoom, "ValidationError")
    /\ UNCHANGED <<rooms_by_id, clients, conn, room_of>>
    /\ UNCHANGED <<gen, destroying, announced, wire>>

\* a valid request is received, and process_room_entry runs up to
\* `await client.conn.send(info_event_json)`, or raises into the second `except` block,
\* which runs up to the `await conn.send(error_event_json)` of report_error
process_room_entry(s) ==
    /\ pc[s] = "recv_entry"
    /\ conn[s].state = "open"
    /\ \E name \in Names, rule \in Rules, id \in RoomIds :
       \E a \in allocate_room(rooms_by_id, rule, IF rule = "ID" THEN id ELSE NoRoom) :
         IF a.err # OK
         THEN /\ rooms_by_id' = a.rooms
              /\ exc' = [exc EXCEPT ![s] = a.err]
              /\ pc' = [pc EXCEPT ![s] = "report_error_entry"]
              /\ last' = Call("process_room_entry", s, a.room, rule,
                              IF rule = "ID" THEN id ELSE NoRoom, a.err)
              /\ UNCHANGED <<clients, room_of>>
         ELSE LET made == [clients EXCEPT ![s] = Client(name)]
                  r == Room_add(a.rooms, made, a.room, s)
              IN /\ rooms_by_id' = r.rooms
                 /\ clients' = r.clients
                 /\ last' = Call("process_room_entry", s, a.room, rule,
                                 IF rule = "ID" THEN id ELSE NoRoom, r.err)
                 /\ IF r.err # OK
                    THEN /\ exc' = [exc EXCEPT ![s] = r.err]
                         /\ pc' = [pc EXCEPT ![s] = "report_error_entry"]
                         /\ room_of' = room_of
                    ELSE /\ room_of' = [room_of EXCEPT ![s] = a.room]
                         /\ pc' = [pc EXCEPT ![s] = "send_room_info"]
                         /\ exc' = exc
    /\ bcast' = NoBcast
    /\ sent' = NoSend
    /\ conn' = conn
    /\ UNCHANGED <<gen, destroying, announced, wire>>

\* report_error resumes in the first or second `except` block: the ERROR event was sent
\* and the block closes the connection and returns, or the send raised and the
\* HandlerException of report_error leaves the handler before conn.close()
report_error(s) ==
    /\ pc[s] \in {"report_error_request", "report_error_entry"}
    /\ sent' = Send(conn, s, "ERROR")
    /\ IF conn[s].state = "open"
       THEN /\ conn' = conn_close(conn, s)
            /\ pc' = [pc EXCEPT ![s] = "done"]
       ELSE /\ conn' = conn
            /\ pc' = [pc EXCEPT ![s] = "raised"]
    /\ exc' = [exc EXCEPT ![s] = "none"]
    /\ bcast' = NoBcast
    /\ last' = NoCall
    /\ UNCHANGED <<rooms_by_id, clients, room_of>>
    /\ UNCHANGED <<gen, destroying, announced, wire>>

\* variant of the ROOM_JOIN broadcast that does not count the joiner
handle_messaging_join_others(s) ==
    /\ pc[s] = "send_room_info"
    /\ conn[s].state = "open"
    /\ sent' = Send(conn, s, "ROOM_INFO")
    /\ bcast' = Room_broadcast(rooms_by_id, conn, room_of[s],
                    Event("ROOM_JOIN", clients[s].name, RoomLen(rooms_by_id, room_of[s]) - 1, ""))
    /\ pc' = [pc EXCEPT ![s] = "recv_message"]
    /\ last' = Call("handle_messaging", s, room_of[s], "ROOM_JOIN", NoRoom, OK)
    /\ UNCHANGED <<rooms_by_id, clients, conn, exc, room_of>>
    /\ UNCHANGED <<gen, destroying, announced, wire>>

\* variant of the entry that broadcasts ROOM_INFO to the room instead of sending it to the
\* joining connection
handle_messaging_join_info_broadcast(s) ==
    /\ pc[s] = "send_room_info"
    /\ conn[s].state = "open"
    /\ sent' = NoSend
    /\ bcast' = Room_broadcast(rooms_by_id, conn, room_of[s],
                    Event("ROOM_INFO", NoName, 0, ""))
    /\ pc' = [pc EXCEPT ![s] = "recv_message"]
    /\ last' = Call("handle_messaging", s, room_of[s], "ROOM_JOIN", NoRoom, OK)
    /\ UNCHANGED <<rooms_by_id, clients, conn, exc, room_of>>
    /\ UNCHANGED <<gen, destroying, announced, wire>>

\* the ROOM_INFO send of process_room_entry was made: it returns, and handle_messaging
\* broadcasts ROOM_JOIN and suspends in the first recv of its loop
handle_messaging_join(s) ==
    /\ pc[s] = "send_room_info"
    /\ conn[s].state = "open"
    /\ sent' = Send(conn, s, "ROOM_INFO")
    /\ bcast' = Room_broadcast(rooms_by_id, conn, room_of[s],
                    Event("ROOM_JOIN", clients[s].name, RoomLen(rooms_by_id, room_of[s]), ""))
    /\ pc' = [pc EXCEPT ![s] = "recv_message"]
    /\ last' = Call("handle_messaging", s, room_of[s], "ROOM_JOIN", NoRoom, OK)
    /\ UNCHANGED <<rooms_by_id, clients, conn, exc, room_of>>
    /\ UNCHANGED <<gen, destroying, announced, wire>>

\* variant of the failed ROOM_INFO send whose disconnect is reported like any other cause
process_room_entry_disconnected_reported(s) ==
    /\ pc[s] = "send_room_info"
    /\ conn[s].state # "open"
    /\ sent' = Send(conn, s, "ROOM_INFO")
    /\ exc' = [exc EXCEPT ![s] = "ClientDisconnected"]
    /\ pc' = [pc EXCEPT ![s] = "report_error_entry"]
    /\ bcast' = NoBcast
    /\ last' = Call("process_room_entry", s, room_of[s], "", NoRoom, "ClientDisconnected")
    /\ UNCHANGED <<rooms_by_id, clients, conn, room_of>>
    /\ UNCHANGED <<gen, destroying, announced, wire>>

\* the ROOM_INFO send of process_room_entry raises ClientDisconnected: `except Exception`
\* wraps it, and the second `except` block of the handler runs: report_error returns at
\* once, the connection is closed and the handler returns
process_room_entry_disconnected(s) ==
    /\ pc[s] = "send_room_info"
    /\ conn[s].state # "open"
    /\ sent' = Send(conn, s, "ROOM_INFO")
    /\ conn' = conn_close(conn, s)
    /\ pc' = [pc EXCEPT ![s] = "done"]
    /\ bcast' = NoBcast
    /\ last' = Call("process_room_entry", s, room_of[s], "", NoRoom, "ClientDisconnected")
    /\ UNCHANGED <<rooms_by_id, clients, exc, room_of>>
    /\ UNCHANGED <<gen, destroying, announced, wire>>

\* variant of the ROOM_LEAVE broadcast that counts the leaver: online_count = len(room)
LeaveBroadcast_len(s) ==
    Room_broadcast(rooms_by_id, conn, room_of[s],
        Event("ROOM_LEAVE", clients[s].name, RoomLen(rooms_by_id, room_of[s]), ""))

\* the ROOM_LEAVE broadcast of handle_messaging's `finally`
LeaveBroadcast(s) ==
    Room_broadcast(rooms_by_id, conn, room_of[s],
        Event("ROOM_LEAVE", clients[s].name, RoomLen(rooms_by_id, room_of[s]) - 1, ""))

\* variant of the loop body that rebroadcasts one fixed text whatever was received
handle_messaging_message_fixed_text(s) ==
    /\ pc[s] = "recv_message"
    /\ conn[s].state = "open"
    /\ \E text \in Texts :
         /\ bcast' = Room_broadcast(rooms_by_id, conn, room_of[s],
                         Event("ROOM_MESSAGE", clients[s].name, 0, "hello"))
         /\ last' = [Call("handle_messaging", s, room_of[s], "ROOM_MESSAGE", NoRoom, OK)
                        EXCEPT !.text = text]
    /\ sent' = NoSend
    /\ UNCHANGED <<rooms_by_id, clients, conn, pc, exc, room_of>>
    /\ UNCHANGED <<gen, destroying, announced, wire>>

\* one round of `async for message in client.conn`: the text message `text` is received
\* and rebroadcast
handle_messaging_message(s) ==
    /\ pc[s] = "recv_message"
    /\ conn[s].state = "open"
    /\ \E text \in Texts :
         /\ bcast' = Room_broadcast(rooms_by_id, conn, room_of[s],
                         Event("ROOM_MESSAGE", clients[s].name, 0, text))
         /\ last' = [Call("handle_messaging", s, room_of[s], "ROOM_MESSAGE", NoRoom, OK)
                        EXCEPT !.text = text]
    /\ sent' = NoSend
    /\ UNCHANGED <<rooms_by_id, clients, conn, pc, exc, room_of>>
    /\ UNCHANGED <<gen, destroying, announced, wire>>

\* client.destroy() as the handler's `finally` calls it, up to `await self._conn.close()`;
\* `raising` tells whether an exception is leaving the handler
FinallyDestroy(s, raising) ==
    LET n == destroy_notify(rooms_by_id, clients, s)
    IN /\ rooms_by_id' = n.rooms
       /\ clients' = n.clients
       /\ IF n.err # OK
          THEN /\ conn' = conn
               /\ pc' = [pc EXCEPT ![s] = "raised"]
          ELSE IF ~clients[s].is_active
          THEN /\ conn' = conn
               /\ pc' = [pc EXCEPT ![s] = IF raising THEN "raised" ELSE "done"]
          ELSE /\ conn' = conn_close(conn, s)
               /\ pc' = [pc EXCEPT ![s] =
                           IF raising THEN "destroy_close_raising" ELSE "destroy_close"]

\* variant of the loop that announces the leave on a disconnect but keeps receiving
handle_messaging_disconnect_continue(s) ==
    /\ pc[s] = "recv_message"
    /\ conn[s].state # "open"
    /\ bcast' = LeaveBroadcast(s)
    /\ sent' = NoSend
    /\ last' = Call("handle_messaging", s, room_of[s], "ROOM_LEAVE", NoRoom, "ClientDisconnected")
    /\ UNCHANGED <<rooms_by_id, clients, conn, pc, exc, room_of>>
    /\ UNCHANGED <<gen, destroying, announced, wire>>

\* variant of the teardown on a disconnect that destroys the client before the ROOM_LEAVE
\* broadcast
handle_messaging_disconnect_destroy_first(s) ==
    /\ pc[s] = "recv_message"
    /\ conn[s].state # "open"
    /\ LET n == destroy_notify(rooms_by_id, clients, s)
       IN bcast' = Room_broadcast(n.rooms, conn, room_of[s],
                       Event("ROOM_LEAVE", clients[s].name, RoomLen(n.rooms, room_of[s]), ""))
    /\ FinallyDestroy(s, FALSE)
    /\ sent' = NoSend
    /\ last' = Call("handle_messaging", s, room_of[s], "ROOM_LEAVE", NoRoom, "ClientDisconnected")
    /\ UNCHANGED <<exc, room_of>>
    /\ UNCHANGED <<gen, destroying, announced, wire>>

\* recv raises ClientDisconnected in the loop: handle_messaging's `finally` broadcasts
\* ROOM_LEAVE, report_error returns at once, and the handler's `finally` runs
\* client.destroy(), all without a suspension point in between
handle_messaging_disconnect(s) ==
    /\ pc[s] = "recv_message"
    /\ conn[s].state # "open"
    /\ bcast' = LeaveBroadcast(s)
    /\ FinallyDestroy(s, FALSE)
    /\ sent' = NoSend
    /\ last' = Call("handle_messaging", s, room_of[s], "ROOM_LEAVE", NoRoom, "ClientDisconnected")
    /\ UNCHANGED <<exc, room_of>>
    /\ UNCHANGED <<gen, destroying, announced, wire>>

\* the loop body raises something else (a frame that cannot be rebroadcast):
\* `except Exception`, the ROOM_LEAVE broadcast of `finally`, then the third `except`
\* block of the handler up to the `await conn.send(error_event_json)` of report_error
handle_messaging_error(s) ==
    /\ pc[s] = "recv_message"
    /\ conn[s].state = "open"
    /\ bcast' = LeaveBroadcast(s)
    /\ exc' = [exc EXCEPT ![s] = "Exception"]
    /\ pc' = [pc EXCEPT ![s] = "report_error_messaging"]
    /\ sent' = NoSend
    /\ last' = Call("handle_messaging", s, room_of[s], "ROOM_LEAVE", NoRoom, "Exception")
    /\ UNCHANGED <<rooms_by_id, clients, conn, room_of>>
    /\ announced' = [announced EXCEPT ![s] = RoomLen(rooms_by_id, room_of[s]) - 1]
    /\ UNCHANGED <<gen, destroying, wire>>

\* report_error resumes in the third `except` block, its ERROR send made or raising;
\* either way the handler's `finally` runs client.destroy()
report_error_messaging(s) ==
    /\ pc[s] = "report_error_messaging"
    /\ sent' = Send(conn, s, "ERROR")
    /\ FinallyDestroy(s, conn[s].state # "open")
    /\ exc' = [exc EXCEPT ![s] = "none"]
    /\ bcast' = NoBcast
    /\ last' = NoCall
    /\ UNCHANGED room_of
    /\ announced' = [announced EXCEPT ![s] = NotAnnounced]
    /\ UNCHANGED <<gen, destroying, wire>>

\* Client.destroy resumes after `await self._conn.close()`, and the handler task ends
client_destroy_closed(s) ==
    /\ pc[s] \in {"destroy_close", "destroy_close_raising"}
    /\ clients' = destroy_release(clients, s)
    /\ pc' = [pc EXCEPT ![s] = IF pc[s] = "destroy_close" THEN "done" ELSE "raised"]
    /\ bcast' = NoBcast
    /\ sent' = NoSend
    /\ last' = NoCall
    /\ UNCHANGED <<rooms_by_id, conn, exc, room_of>>
    /\ UNCHANGED <<gen, destroying, announced, wire>>

\* the peer goes away: websockets raises ConnectionClosed on this connection from now on
peer_disconnect(s) ==
    /\ pc[s] \notin {"done", "raised"}
    /\ conn[s].state = "open"
    /\ conn' = [conn EXCEPT ![s].state = "gone"]
    /\ bcast' = NoBcast
    /\ sent' = NoSend
    /\ last' = NoCall
    /\ UNCHANGED <<rooms_by_id, clients, pc, exc, room_of>>
    /\ UNCHANGED <<gen, destroying, announced, wire>>

Next ==
    \E s \in Conns :
        \/ receive_disconnected(s)
        \/ receive_invalid(s)
        \/ process_room_entry(s)
        \/ report_error(s)
        \/ handle_messaging_join(s)
        \/ process_room_entry_disconnected(s)
        \/ handle_messaging_message(s)
        \/ handle_messaging_disconnect(s)
        \/ handle_messaging_error(s)
        \/ report_error_messaging(s)
        \/ client_destroy_closed(s)
        \/ peer_disconnect(s)

Spec == Init /\ [][Next]_vars

\* ------------------------------------------------------- the domain API
\* One task calls the domain API; every call runs to completion (`await client.destroy()`
\* included) before the next one is made.
DomainInit == InitState /\ pc = [c \in Conns |-> "api"]

\* Client(conn, name)
Call_Client(c, name) ==
    /\ ~clients[c].made
    /\ clients' = [clients EXCEPT ![c] = Client(name)]
    /\ last' = Call("Client", c, NoRoom, name, NoRoom, OK)
    /\ bcast' = NoBcast
    /\ UNCHANGED <<rooms_by_id, conn, pc, exc, room_of, sent>>
    /\ UNCHANGED <<gen, destroying, announced, wire>>

\* rooms.allocate_room(rule) / rooms.allocate_room(RoomRules.ID, id=id)
Call_allocate_room(rule, id) ==
    /\ \E a \in allocate_room(rooms_by_id, rule, id) :
         /\ rooms_by_id' = a.rooms
         /\ last' = Call("allocate_room", 0, a.room, rule, id, a.err)
    /\ bcast' = NoBcast
    /\ UNCHANGED <<clients, conn, pc, exc, room_of, sent>>
    /\ UNCHANGED <<gen, destroying, announced, wire>>

\* room.add(client); the caller keeps membership exclusive: it adds a client that is in
\* no room
Call_add(k, c) ==
    /\ k \in DOMAIN rooms_by_id
    /\ clients[c].made
    /\ \A j \in DOMAIN rooms_by_id : c \notin rooms_by_id[j].clients
    /\ LET r == Room_add(rooms_by_id, clients, k, c)
       IN /\ rooms_by_id' = r.rooms
          /\ clients' = r.clients
          /\ last' = Call("add", c, k, "", NoRoom, r.err)
    /\ bcast' = NoBcast
    /\ UNCHANGED <<conn, pc, exc, room_of, sent>>
    /\ UNCHANGED <<gen, destroying, announced, wire>>

\* room.remove(client)
Call_remove(k, c) ==
    /\ k \in DOMAIN rooms_by_id
    /\ clients[c].made
    /\ LET r == Room_remove(rooms_by_id, clients, k, c)
       IN /\ rooms_by_id' = r.rooms
          /\ clients' = r.clients
          /\ last' = Call("remove", c, k, "", NoRoom, r.err)
    /\ bcast' = NoBcast
    /\ UNCHANGED <<conn, pc, exc, room_of, sent>>
    /\ UNCHANGED <<gen, destroying, announced, wire>>

\* await client.destroy()
Call_destroy(c) ==
    /\ clients[c].made
    /\ LET d == destroy(rooms_by_id, clients, conn, c)
       IN /\ rooms_by_id' = d.rooms
          /\ clients' = d.clients
          /\ conn' = d.conn
          /\ last' = Call("destroy", c, NoRoom,
                          IF clients[c].is_active THEN "active" ELSE "inactive", NoRoom, d.err)
    /\ bcast' = NoBcast
    /\ UNCHANGED <<pc, exc, room_of, sent>>
    /\ UNCHANGED <<gen, destroying, announced, wire>>

\* room.broadcast(message), while the peers of the connections in `down` are gone
Call_broadcast(k, text, down) ==
    /\ k \in DOMAIN rooms_by_id
    /\ bcast' = Room_broadcast(rooms_by_id,
                    [c \in Conns |-> IF c \in down /\ conn[c].state = "open"
                                     THEN [conn[c] EXCEPT !.state = "gone"] ELSE conn[c]],
                    k, Event("ROOM_MESSAGE", NoName, 0, text))
    /\ last' = Call("broadcast", 0, k, text, NoRoom, OK)
    /\ UNCHANGED <<rooms_by_id, clients, conn, pc, exc, room_of, sent>>
    /\ UNCHANGED <<gen, destroying, announced, wire>>

DomainNext ==
    \/ \E c \in Conns, name \in Names : Call_Client(c, name)
    \/ \E rule \in {"CREATE", "RANDOM"} : Call_allocate_room(rule, NoRoom)
    \/ \E id \in RoomIds : Call_allocate_room("ID", id)
    \/ \E k \in RoomIds, c \in Conns : Call_add(k, c)
    \/ \E k \in RoomIds, c \in Conns : Call_remove(k, c)
    \/ \E c \in Conns : Call_destroy(c)
    \/ \E k \in DOMAIN rooms_by_id, text \in Texts :
         \E down \in SUBSET rooms_by_id[k].clients : Call_broadcast(k, text, down)

DomainSpec == DomainInit /\ [][DomainNext]_vars

\* ------------------------------------- the domain API, membership not exclusive
\* room.add(client) by a caller that may add a client to a second room
Call_add_any(k, c) ==
    /\ k \in DOMAIN rooms_by_id
    /\ clients[c].made
    /\ LET r == Room_add(rooms_by_id, clients, k, c)
       IN /\ rooms_by_id' = r.rooms
          /\ clients' = r.clients
          /\ last' = Call("add", c, k, "", NoRoom, r.err)
    /\ bcast' = NoBcast
    /\ UNCHANGED <<conn, pc, exc, room_of, sent, gen, destroying, announced, wire>>

\* add, remove and destroy in any order on any room and client
ObserverNext ==
    \/ \E c \in Conns, name \in Names : Call_Client(c, name)
    \/ Call_allocate_room("CREATE", NoRoom)
    \/ \E k \in RoomIds, c \in Conns : Call_add_any(k, c)
    \/ \E k \in RoomIds, c \in Conns : Call_remove(k, c)
    \/ \E c \in Conns : Call_destroy(c)

ObserverSpec == DomainInit /\ [][ObserverNext]_vars

\* --------------------------------------------- Client.destroy, step by step
\* variant of the loop that walks the snapshot from its end
destroy_next_reversed(C, d) ==
    IF Len(d.called) < Len(d.snapshot)
    THEN d.snapshot[Len(d.snapshot) - Len(d.called)]
    ELSE NoRoom

\* variant of the loop that walks the live list self._on_destroy_callbacks, which the
\* observers shrink while it is walked
destroy_next_live(C, d) ==
    IF Len(d.called) < Len(C[d.c].callbacks)
    THEN C[d.c].callbacks[Len(d.called) + 1]
    ELSE NoRoom

\* `for callback in snapshot`: the observer the loop calls next, NoRoom when it is over
destroy_next(C, d) ==
    IF Len(d.called) < Len(d.snapshot)
    THEN d.snapshot[Len(d.called) + 1]
    ELSE NoRoom

\* destroy is called: on an inactive client it returns at once, on an active one it
\* takes the snapshot of the observers
destroy_call(c) ==
    /\ destroying.pc = "idle"
    /\ clients[c].made
    /\ IF clients[c].is_active
       THEN /\ destroying' = [pc |-> "notify", c |-> c,
                              snapshot |-> clients[c].callbacks, called |-> <<>>]
            /\ last' = Call("destroy", c, NoRoom, "active", NoRoom, "running")
       ELSE /\ destroying' = destroying
            /\ last' = Call("destroy", c, NoRoom, "inactive", NoRoom, OK)
    /\ bcast' = NoBcast
    /\ UNCHANGED <<rooms_by_id, clients, conn, pc, exc, room_of, sent, gen, announced, wire>>

\* `callback(self)`: the next observer, Room.remove of a room, is called; what it raises
\* leaves destroy
destroy_callback ==
    /\ destroying.pc = "notify"
    /\ destroy_next(clients, destroying) # NoRoom
    /\ LET k == destroy_next(clients, destroying)
           r == Room_remove(rooms_by_id, clients, k, destroying.c)
       IN /\ rooms_by_id' = r.rooms
          /\ clients' = r.clients
          /\ IF r.err = OK
             THEN /\ destroying' = [destroying EXCEPT !.called = Append(@, k)]
                  /\ last' = last
             ELSE /\ destroying' = NotDestroying
                  /\ last' = Call("destroy", destroying.c, k, "active", NoRoom, r.err)
    /\ UNCHANGED <<conn, pc, exc, room_of, bcast, sent, gen, announced, wire>>

\* the loop is over: `await self._conn.close()`
destroy_conn_close ==
    /\ destroying.pc = "notify"
    /\ destroy_next(clients, destroying) = NoRoom
    /\ conn' = conn_close(conn, destroying.c)
    /\ destroying' = [destroying EXCEPT !.pc = "closing"]
    /\ UNCHANGED <<rooms_by_id, clients, pc, exc, room_of, bcast, sent, last, gen, announced, wire>>

\* the close returned: self.__dict__.clear(); self._is_active = False
destroy_return ==
    /\ destroying.pc = "closing"
    /\ clients' = destroy_release(clients, destroying.c)
    /\ last' = Call("destroy", destroying.c, NoRoom, "active", NoRoom, OK)
    /\ destroying' = NotDestroying
    /\ UNCHANGED <<rooms_by_id, conn, pc, exc, room_of, bcast, sent, gen, announced, wire>>

\* the calls are made one after the other: none starts while destroy runs
DestroyNext ==
    \/ destroying.pc = "idle" /\ \E c \in Conns, name \in Names : Call_Client(c, name)
    \/ destroying.pc = "idle" /\ Call_allocate_room("CREATE", NoRoom)
    \/ destroying.pc = "idle" /\ \E k \in RoomIds, c \in Conns : Call_add_any(k, c)
    \/ destroying.pc = "idle" /\ \E k \in RoomIds, c \in Conns : Call_remove(k, c)
    \/ \E c \in Conns : destroy_call(c)
    \/ destroy_callback
    \/ destroy_conn_close
    \/ destroy_return

DestroySpec == DomainInit /\ [][DestroyNext]_vars

\* ------------------------------------------ the observer list of one client
\* client.register_on_destroy(callback), the callback being the remove routine of room k
Call_register_on_destroy(c, k) ==
    /\ clients[c].made
    /\ Len(clients[c].callbacks) < MaxCallbacks
    /\ clients' = register_on_destroy(clients, c, k)
    /\ last' = Call("register_on_destroy", c, k, "", NoRoom, OK)
    /\ UNCHANGED <<rooms_by_id, conn, pc, exc, room_of, bcast, sent, gen, destroying, announced, wire>>

\* client.unregister_on_destroy(callback)
Call_unregister_on_destroy(c, k) ==
    /\ clients[c].made
    /\ LET u == unregister_on_destroy(clients, c, k)
       IN /\ clients' = u.clients
          /\ last' = Call("unregister_on_destroy", c, k, "", NoRoom, u.err)
    /\ UNCHANGED <<rooms_by_id, conn, pc, exc, room_of, bcast, sent, gen, destroying, announced, wire>>

RegistryNext ==
    \/ \E name \in Names : Call_Client(1, name)
    \/ \E k \in RoomIds : Call_register_on_destroy(1, k)
    \/ \E k \in RoomIds : Call_unregister_on_destroy(1, k)

RegistrySpec == DomainInit /\ [][RegistryNext]_vars

\* ------------------------------------------------- broadcasts on the wire
\* variant of the write that puts the frame ahead of the frames not yet read
wire_write_front(W, attempts, frame) ==
    [W EXCEPT !.issued = @ + 1,
              !.outbox = [c \in Conns |->
                  IF \E i \in DOMAIN attempts : attempts[i].to = c /\ attempts[i].ok
                  THEN <<frame>> \o @[c] ELSE @[c]]]

\* websockets.broadcast writes the frame to every open connection it is handed, behind
\* the frames written to that connection before
wire_write(W, attempts, frame) ==
    [W EXCEPT !.issued = @ + 1,
              !.outbox = [c \in Conns |->
                  IF \E i \in DOMAIN attempts : attempts[i].to = c /\ attempts[i].ok
                  THEN Append(@[c], frame) ELSE @[c]]]

\* room.broadcast(message): the n-th broadcast the caller issues
Wire_broadcast(k) ==
    /\ k \in DOMAIN rooms_by_id
    /\ wire.issued < MaxBroadcasts
    /\ LET frame == [room |-> k, n |-> wire.issued + 1]
           b == Room_broadcast(rooms_by_id, conn, k, Event("ROOM_MESSAGE", NoName, 0, "hello"))
       IN /\ bcast' = b
          /\ wire' = wire_write(wire, b.attempts, frame)
    /\ last' = Call("broadcast", 0, k, "hello", NoRoom, OK)
    /\ UNCHANGED <<rooms_by_id, clients, conn, pc, exc, room_of, sent, gen, destroying, announced>>

\* the peer of connection c reads the next frame the connection carries
Wire_receive(c) ==
    /\ wire.outbox[c] # <<>>
    /\ wire' = [wire EXCEPT !.outbox[c] = Tail(@),
                            !.received[c] = Append(@, Head(wire.outbox[c]))]
    /\ UNCHANGED <<rooms_by_id, clients, conn, pc, exc, room_of, bcast, sent, last, gen,
                   destroying, announced>>

DeliveryNext ==
    \/ \E c \in Conns, n \in Names : Call_Client(c, n)
    \/ Call_allocate_room("CREATE", NoRoom)
    \/ \E k \in RoomIds, c \in Conns : Call_add(k, c)
    \/ \E c \in Conns : Call_destroy(c)
    \/ \E k \in RoomIds : Wire_broadcast(k)
    \/ \E c \in Conns : Wire_receive(c)

DeliverySpec == DomainInit /\ [][DeliveryNext]_vars

\* ------------------------------------------- create_room, step by step
GenInit == InitState /\ pc = [c \in Conns |-> "api"]

\* create_room is called and enters _generate_room_id: retries = 0
create_room_call ==
    /\ gen.pc = "idle"
    /\ gen' = [pc |-> "loop", retries |-> 0, attempts |-> 0, id |-> NoRoom]
    /\ UNCHANGED <<rooms_by_id, clients, conn, pc, exc, room_of, bcast, sent, last, destroying, announced, wire>>

\* variant of the loop body that does not count a collision
generate_room_id_step_uncounted(id) ==
    /\ gen.pc = "loop"
    /\ gen.retries < max_retries
    /\ gen' = [pc |-> IF id \in DOMAIN rooms_by_id THEN "loop" ELSE "returned",
               retries |-> gen.retries, attempts |-> gen.attempts + 1, id |-> id]
    /\ UNCHANGED <<rooms_by_id, clients, conn, pc, exc, room_of, bcast, sent, last, destroying, announced, wire>>

\* variant of the loop body without the `id not in self._rooms_by_id` test
generate_room_id_step_unchecked(id) ==
    /\ gen.pc = "loop"
    /\ gen.retries < max_retries
    /\ gen' = [pc |-> "returned", retries |-> gen.retries,
               attempts |-> gen.attempts + 1, id |-> id]
    /\ UNCHANGED <<rooms_by_id, clients, conn, pc, exc, room_of, bcast, sent, last, destroying, announced, wire>>

\* one iteration of `while retries < max_retries`: the generator draws `id`, which is
\* returned if it is not in the index and counted as a retry if it is
generate_room_id_step(id) ==
    /\ gen.pc = "loop"
    /\ gen.retries < max_retries
    /\ gen' = IF id \in DOMAIN rooms_by_id
              THEN [pc |-> "loop", retries |-> gen.retries + 1,
                    attempts |-> gen.attempts + 1, id |-> id]
              ELSE [pc |-> "returned", retries |-> gen.retries,
                    attempts |-> gen.attempts + 1, id |-> id]
    /\ UNCHANGED <<rooms_by_id, clients, conn, pc, exc, room_of, bcast, sent, last, destroying, announced, wire>>

\* the loop condition fails: `raise ValueError`
generate_room_id_raise ==
    /\ gen.pc = "loop"
    /\ ~(gen.retries < max_retries)
    /\ gen' = [gen EXCEPT !.pc = "raised"]
    /\ UNCHANGED <<rooms_by_id, clients, conn, pc, exc, room_of, bcast, sent, last, destroying, announced, wire>>

\* _generate_room_id returned: create_room makes the Room and registers it
create_room_register ==
    /\ gen.pc = "returned"
    /\ rooms_by_id' = create_room(rooms_by_id, [err |-> OK, id |-> gen.id]).rooms
    /\ last' = Call("create_room", 0, gen.id, "", NoRoom, OK)
    /\ gen' = GenIdle
    /\ UNCHANGED <<clients, conn, pc, exc, room_of, bcast, sent, destroying, announced, wire>>

\* the ValueError leaves create_room
create_room_raise ==
    /\ gen.pc = "raised"
    /\ last' = Call("create_room", 0, NoRoom, "", NoRoom, "ValueError")
    /\ gen' = GenIdle
    /\ UNCHANGED <<rooms_by_id, clients, conn, pc, exc, room_of, bcast, sent, destroying, announced, wire>>

GenNext ==
    \/ create_room_call
    \/ \E id \in RoomIds : generate_room_id_step(id)
    \/ generate_room_id_raise
    \/ create_room_register
    \/ create_room_raise

GenSpec == GenInit /\ [][GenNext]_vars

\* ================================================================ claims
InRoom(c, k) == k \in DOMAIN rooms_by_id /\ c \in rooms_by_id[k].clients
InSomeRoom(c) == \E k \in DOMAIN rooms_by_id : c \in rooms_by_id[k].clients
Ended(s) == pc[s] \in {"done", "raised"}

\* C1: no room ever contains two clients with the same name, whatever the interleaving
\* of the sessions that join and leave.
C1_UniqueNames ==
    \A k \in DOMAIN rooms_by_id : \A c, d \in rooms_by_id[k].clients :
        c # d => clients[c].name # clients[d].name

\* a session was refused with NameInRoomOccupied by a room whose member holds the name
C1_Witness ==
    \E s \in Conns, d \in Conns :
        /\ s # d
        /\ last.op = "process_room_entry" /\ last.c = s /\ last.err = "NameInRoomOccupied"
        /\ InRoom(d, last.room)
        /\ ~InSomeRoom(s)
        /\ clients[s].made /\ clients[d].name = clients[s].name

\* C2: no room's member set ever contains an inactive client; a client whose destroy has
\* notified its observers and is not yet marked inactive is already in no room.
C2_MembersActive ==
    /\ \A k \in DOMAIN rooms_by_id : \A c \in rooms_by_id[k].clients :
          clients[c].made /\ clients[c].is_active
    /\ \A s \in Conns : pc[s] \in {"destroy_close", "destroy_close_raising"} =>
          clients[s].is_active /\ ~InSomeRoom(s)

\* a client that was a member is destroyed and inactive while its room has a member left
C2_Witness ==
    \E s \in Conns :
        /\ room_of[s] # NoRoom
        /\ clients[s].made /\ ~clients[s].is_active
        /\ rooms_by_id[room_of[s]].clients # {}

\* C3: a session whose Room.add succeeded has, when its handler ends, destroyed its
\* client: the client is out of every room and inactive.
C3_JoinedReachesLeft ==
    \A s \in Conns :
        (Ended(s) /\ room_of[s] # NoRoom) => (~clients[s].is_active /\ ~InSomeRoom(s))

\* C4: a step in which process_room_entry fails for session s leaves every room with the
\* members it had without s, s a member of no room, and no destroy observer on s's client.
C4_FailedEntryLeavesNothing ==
    [][\A s \in Conns :
          (last'.op = "process_room_entry" /\ last'.c = s /\ last'.err # OK) =>
             /\ \A k \in DOMAIN rooms_by_id :
                   rooms_by_id'[k].clients = rooms_by_id[k].clients \ {s}
             /\ \A k \in DOMAIN rooms_by_id' : s \notin rooms_by_id'[k].clients
             /\ clients'[s].callbacks = <<>>]_vars

\* C5: Client.destroy on an inactive client raises nothing and changes no room, no client
\* and no connection.
C5_DestroyIdempotent ==
    [][\A c \in Conns :
          (last'.op = "destroy" /\ last'.c = c /\ clients[c].made /\ ~clients[c].is_active) =>
             /\ last'.err = OK
             /\ UNCHANGED <<rooms_by_id, clients, conn>>]_vars

\* destroy was called on a client that an earlier destroy had made inactive
C5_Witness ==
    /\ last.op = "destroy" /\ last.arg = "inactive"
    /\ clients[last.c].cleared /\ conn[last.c].closes = 1

\* C6: allocate_room(RANDOM) never fails; on a non-empty index it returns a registered
\* room of minimal member count and changes nothing; on an empty index it registers one
\* new empty room and returns it.
C6_RandomLeastLoaded ==
    [][(last'.op = "allocate_room" /\ last'.arg = "RANDOM") =>
          /\ last'.err = OK
          /\ DOMAIN rooms_by_id # {} =>
                /\ last'.room \in DOMAIN rooms_by_id
                /\ \A j \in DOMAIN rooms_by_id :
                      RoomLen(rooms_by_id, last'.room) <= RoomLen(rooms_by_id, j)
                /\ rooms_by_id' = rooms_by_id
          /\ DOMAIN rooms_by_id = {} =>
                /\ DOMAIN rooms_by_id' = {last'.room}
                /\ rooms_by_id'[last'.room].clients = {}]_vars

\* RANDOM returned a room that is not the first of the index, a fuller room being there
C6_Witness ==
    /\ last.op = "allocate_room" /\ last.arg = "RANDOM" /\ last.err = OK
    /\ rooms_by_id[last.room].pos > 1
    /\ \E j \in DOMAIN rooms_by_id : RoomLen(rooms_by_id, j) > RoomLen(rooms_by_id, last.room)

\* C7: allocate_room(ID, id=X) fails with NoRoomWithID and changes nothing when X is not
\* in the index, and returns the room registered under X, changing nothing, when it is.
C7_SelectById ==
    [][(last'.op = "allocate_room" /\ last'.arg = "ID") =>
          /\ UNCHANGED <<rooms_by_id, clients>>
          /\ IF last'.id \in DOMAIN rooms_by_id
             THEN last'.err = OK /\ last'.room = last'.id /\ rooms_by_id[last'.room].id = last'.id
             ELSE last'.err = "NoRoomWithID" /\ last'.room = NoRoom]_vars

\* an id that is not registered was asked for while another room is
C7_Witness ==
    /\ last.op = "allocate_room" /\ last.arg = "ID" /\ last.err = "NoRoomWithID"
    /\ last.id \notin DOMAIN rooms_by_id
    /\ DOMAIN rooms_by_id # {}

\* C8: allocate_room(CREATE) either registers one new empty room under an id that was not
\* in the index, leaving every other room and every client as it was, or fails because
\* id generation ran out of attempts, changing nothing.
C8_CreateFresh ==
    [][(last'.op = "allocate_room" /\ last'.arg = "CREATE") =>
          IF last'.err = OK
          THEN /\ last'.room \notin DOMAIN rooms_by_id
               /\ DOMAIN rooms_by_id' = DOMAIN rooms_by_id \cup {last'.room}
               /\ rooms_by_id'[last'.room].id = last'.room
               /\ rooms_by_id'[last'.room].clients = {}
               /\ \A k \in DOMAIN rooms_by_id : rooms_by_id'[k] = rooms_by_id[k]
               /\ clients' = clients
          ELSE /\ last'.err = "ValueError"
               /\ DOMAIN rooms_by_id # {}
               /\ UNCHANGED <<rooms_by_id, clients>>]_vars

\* CREATE made a new room while a registered room had members
C8_Witness ==
    /\ last.op = "allocate_room" /\ last.arg = "CREATE" /\ last.err = OK
    /\ rooms_by_id[last.room].clients = {}
    /\ \E k \in DOMAIN rooms_by_id : k # last.room /\ rooms_by_id[k].clients # {}

\* C9: Room.broadcast makes exactly one send attempt per member of the room at the call,
\* none to another connection, each with the message given, and changes no member set.
C9_BroadcastToMembers ==
    [][last'.op = "broadcast" =>
          LET a == bcast'.attempts
              k == last'.room
          IN /\ bcast'.room = k
             /\ Len(a) = RoomLen(rooms_by_id, k)
             /\ {a[i].to : i \in DOMAIN a} = rooms_by_id[k].clients
             /\ \A i \in DOMAIN a : a[i].msg = bcast'.msg
             /\ bcast'.msg.message = last'.arg
             /\ UNCHANGED <<rooms_by_id, clients>>]_vars

\* a broadcast to two members, the write to one of them failing
C9_Witness ==
    /\ last.op = "broadcast"
    /\ Len(bcast.attempts) >= 2
    /\ \E i \in DOMAIN bcast.attempts : ~bcast.attempts[i].ok

\* C10: in a step of session s that broadcasts, every member of the room gets its send
\* attempt, which is made good exactly when that member's connection is open; a ROOM_JOIN
\* or ROOM_MESSAGE broadcast leaves s in its receive loop with no error; and no other
\* session's client, membership or connection changes.
C10_SendFailureIsolated ==
    [][\A s \in Conns :
          (last'.op = "handle_messaging" /\ last'.c = s) =>
             LET a == bcast'.attempts
                 k == room_of[s]
             IN /\ bcast'.room = k
                /\ \A c \in rooms_by_id[k].clients :
                      \E i \in DOMAIN a : a[i].to = c /\ (a[i].ok <=> conn[c].state = "open")
                /\ last'.arg \in {"ROOM_JOIN", "ROOM_MESSAGE"} =>
                      pc'[s] = "recv_message" /\ exc'[s] = "none" /\ InRoom(s, k)'
                /\ \A c \in Conns \ {s} :
                      /\ clients'[c] = clients[c]
                      /\ conn'[c] = conn[c]
                      /\ pc'[c] = pc[c]
                      /\ \A j \in DOMAIN rooms_by_id :
                            (c \in rooms_by_id'[j].clients) <=> (c \in rooms_by_id[j].clients)]_vars

\* a broadcast reached one member while the write to another member, still in the room,
\* failed
C10_Witness ==
    /\ last.op = "handle_messaging" /\ last.arg = "ROOM_MESSAGE"
    /\ \E i, j \in DOMAIN bcast.attempts :
          /\ ~bcast.attempts[i].ok /\ bcast.attempts[j].ok
          /\ bcast.attempts[i].to < bcast.attempts[j].to
          /\ InRoom(bcast.attempts[i].to, bcast.room)
          /\ pc[last.c] = "recv_message"

C12_NameOccupiedRejected ==
    [][\A s \in Conns :
          /\ (last'.op = "process_room_entry" /\ last'.c = s
                  /\ last'.err = "NameInRoomOccupied") =>
                /\ \E d \in rooms_by_id[last'.room].clients :
                      /\ d # s
                      /\ clients[d].name = clients'[s].name
                      /\ last'.room \in Range(clients'[d].callbacks)
                /\ rooms_by_id' = rooms_by_id
                /\ \A c \in Conns \ {s} : clients'[c] = clients[c]
                /\ ~InSomeRoom(s)' /\ clients'[s].callbacks = <<>>
                /\ pc'[s] = "report_error_entry" /\ exc'[s] = "NameInRoomOccupied"
          /\ (pc[s] = "report_error_entry" /\ exc[s] = "NameInRoomOccupied"
                  /\ pc'[s] # pc[s]) =>
                /\ Ended(s)'
                /\ conn'[s].state # "open"
                /\ conn[s].state = "open" =>
                      conn'[s].state = "closed" /\ sent' = [to |-> s, event |-> "ERROR", ok |-> TRUE]
                /\ UNCHANGED <<rooms_by_id, clients>>]_vars

\* a session refused for its name has ended, the ERROR event sent and its connection
\* closed, while the holder of the name is still a member with its observer
C12_Witness ==
    \E s \in Conns, d \in Conns :
        /\ s # d
        /\ pc[s] = "done" /\ conn[s].state = "closed"
        /\ sent = [to |-> s, event |-> "ERROR", ok |-> TRUE]
        /\ clients[s].made /\ clients[s].is_active /\ room_of[s] = NoRoom
        /\ ~InSomeRoom(s)
        /\ \E k \in DOMAIN rooms_by_id :
              /\ rooms_by_id[k].clients = {d}
              /\ clients[d].name = clients[s].name
              /\ clients[d].callbacks = <<k>>

\* C13: the loop of _generate_room_id never makes more than max_retries draws; every
\* draw that collides with the index is counted, so a run of collisions ends; the
\* ValueError is raised after exactly max_retries draws; and the index is not written
\* while the loop runs or when it raises.
C13_GenerationTerminates ==
    /\ [](/\ gen.attempts <= max_retries /\ gen.retries <= max_retries
          /\ gen.pc = "loop" => gen.attempts = gen.retries
          /\ gen.pc = "raised" => gen.attempts = max_retries /\ gen.retries = max_retries)
    /\ [][/\ gen.pc \in {"loop", "raised"} => rooms_by_id' = rooms_by_id
          /\ (gen.pc = "loop" /\ gen'.pc = "loop") =>
                /\ gen'.retries = gen.retries + 1
                /\ gen'.attempts = gen.attempts + 1
                /\ gen'.id \in DOMAIN rooms_by_id
          /\ (gen.pc = "loop" /\ gen.retries = max_retries) => gen'.pc = "raised"]_vars

\* every draw collided and the ValueError was raised
C13_Witness ==
    /\ gen.pc = "raised"
    /\ gen.attempts = max_retries
    /\ gen.id \in DOMAIN rooms_by_id

\* C14: every key of the index maps to a room whose id is the key, and the rooms of the
\* index are distinct objects; the id _generate_room_id returns is not a key of the index,
\* and registering the new room under it adds that one entry and leaves every
\* registered room under its key as it was.
C14_IdsUnique ==
    /\ [](/\ \A k \in DOMAIN rooms_by_id : rooms_by_id[k].id = k
          /\ \A j, k \in DOMAIN rooms_by_id : j # k => rooms_by_id[j].pos # rooms_by_id[k].pos
          /\ gen.pc = "returned" => gen.id \notin DOMAIN rooms_by_id)
    /\ [][/\ \A k \in DOMAIN rooms_by_id :
                k \in DOMAIN rooms_by_id' /\ rooms_by_id'[k] = rooms_by_id[k]
          /\ gen.pc = "returned" =>
                /\ DOMAIN rooms_by_id' = DOMAIN rooms_by_id \cup {gen.id}
                /\ rooms_by_id'[gen.id] = NewRoom(gen.id, Cardinality(DOMAIN rooms_by_id) + 1)]_vars

\* a second room was registered, under an id other than the first room's
C14_Witness ==
    /\ last.op = "create_room" /\ last.err = OK
    /\ gen = GenIdle
    /\ Cardinality(DOMAIN rooms_by_id) >= 2
    /\ rooms_by_id[last.room].pos = Cardinality(DOMAIN rooms_by_id)

\* C15: every client is a member of at most one room, in every state the connection
\* handlers can reach.
C15_ExclusiveMembership ==
    \A c \in Conns : Cardinality({k \in DOMAIN rooms_by_id : c \in rooms_by_id[k].clients}) <= 1

\* two sessions have joined, each its own room
C15_Witness ==
    \E s \in Conns, d \in Conns :
        /\ s # d
        /\ room_of[s] # NoRoom /\ room_of[d] # NoRoom /\ room_of[s] # room_of[d]
        /\ InRoom(s, room_of[s]) /\ InRoom(d, room_of[d])
        /\ last.op = "process_room_entry" /\ last.c = s /\ last.err = OK

\* C16: the step in which the entry request of session s fails (invalid payload, or the
\* peer gone), and the error report that follows it, construct no Client and change no
\* room and no member set; s has no Client while it reports the error, and none is
\* constructed for it after its handler has ended.
C16_RequestFailureTouchesNothing ==
    /\ [](\A s \in Conns : pc[s] = "report_error_request" =>
              ~clients[s].made /\ room_of[s] = NoRoom /\ ~InSomeRoom(s))
    /\ [][\A s \in Conns :
             /\ (last'.op = "receive_room_entry_request" /\ last'.c = s) =>
                   /\ pc[s] = "recv_entry"
                   /\ ~clients'[s].made
                   /\ UNCHANGED <<rooms_by_id, clients, room_of>>
                   /\ pc'[s] = IF last'.err = "ClientDisconnected"
                               THEN "done" ELSE "report_error_request"
             /\ (pc[s] = "report_error_request" /\ pc'[s] # pc[s]) =>
                   /\ Ended(s)'
                   /\ UNCHANGED <<rooms_by_id, clients, room_of>>
             /\ Ended(s) => clients'[s] = clients[s] /\ pc'[s] = pc[s]]_vars

\* an invalid entry request was received while another session is a member of a room
C16_Witness ==
    /\ last.op = "receive_room_entry_request" /\ last.err = "ValidationError"
    /\ pc[last.c] = "report_error_request"
    /\ ~clients[last.c].made
    /\ \E d \in Conns : d # last.c /\ InSomeRoom(d)

\* C17: a session whose handler has ended without joining a room (it failed in the
\* entry-request stage or in the room-entry stage) has had its connection closed by the
\* handler.
C17_ClosedBeforeEnd ==
    \A s \in Conns :
        (Ended(s) /\ room_of[s] = NoRoom) => (conn[s].state = "closed" /\ conn[s].closes >= 1)

\* C18: no handler ever ends with an exception leaving _handle_client_connection, and a
\* step of one session changes no other session's client, connection, position or
\* membership.
C18_NoEscapeIsolated ==
    /\ [](\A s \in Conns : pc[s] # "raised")
    /\ [][\A s \in Conns : pc'[s] # pc[s] =>
             \A c \in Conns \ {s} :
                /\ clients'[c] = clients[c]
                /\ conn'[c] = conn[c]
                /\ pc'[c] = pc[c]
                /\ \A k \in DOMAIN rooms_by_id :
                      (c \in rooms_by_id'[k].clients) <=> (c \in rooms_by_id[k].clients)]_vars

\* C19: no step broadcasts or sends to a connection that has been torn down; stated for
\* the connections the server itself has closed: every recipient of a broadcast a step
\* makes, and the target of a direct send it makes, is a connection the server had not
\* closed when the step began.
C19_NoSendToTornDown ==
    [][/\ \A i \in DOMAIN bcast'.attempts : conn[bcast'.attempts[i].to].state # "closed"
       /\ sent'.to \in Conns => conn[sent'.to].state # "closed"]_vars

\* C20: the observer list of every client holds the remove routine of each room the
\* client is a member of exactly once, and nothing else; no add, remove or destroy call
\* fails for a missing or a stale observer.
C20_ObserversPaired ==
    /\ \A c \in Conns :
          /\ Range(clients[c].callbacks) = {k \in DOMAIN rooms_by_id : c \in rooms_by_id[k].clients}
          /\ \A i, j \in DOMAIN clients[c].callbacks :
                i # j => clients[c].callbacks[i] # clients[c].callbacks[j]
    /\ last.op = "destroy" => last.err = OK
    /\ (last.op = "remove" /\ last.err # OK) => ~InRoom(last.c, last.room)

\* a client that was a member of two rooms has been removed from the first it joined
\* and is left with the observer of the other
C20_Witness ==
    /\ last.op = "remove" /\ last.err = OK
    /\ Cardinality(DOMAIN rooms_by_id) >= 2
    /\ \E k \in DOMAIN rooms_by_id :
          /\ k # last.room
          /\ InRoom(last.c, k)
          /\ clients[last.c].callbacks = <<k>>
          /\ rooms_by_id[k].pos > rooms_by_id[last.room].pos

\* C21: while destroy calls the observers, it has called them in the order of their
\* registration, the client is active, its name is readable and its connection is not
\* closed; the connection is closed only when every observer has been called; the client
\* becomes inactive, its state released, only after the close.
C21_DestroyOrder ==
    /\ [](LET d == destroying
          IN /\ d.pc = "notify" =>
                   /\ d.called = SubSeq(d.snapshot, 1, Len(d.called))
                   /\ clients[d.c].is_active /\ ~clients[d.c].cleared
                   /\ clients[d.c].name \in Names
                   /\ conn[d.c].state = "open" /\ conn[d.c].closes = 0
             /\ d.pc = "closing" =>
                   /\ d.called = d.snapshot
                   /\ clients[d.c].is_active /\ ~clients[d.c].cleared
                   /\ clients[d.c].name \in Names
                   /\ conn[d.c].state = "closed" /\ conn[d.c].closes = 1)
    /\ [][\A c \in Conns :
             /\ conn'[c] # conn[c] =>
                   /\ destroying.pc = "notify" /\ destroying.c = c
                   /\ destroying.called = destroying.snapshot
             /\ (clients[c].is_active /\ ~clients'[c].is_active) =>
                   /\ destroying.pc = "closing" /\ destroying.c = c
                   /\ conn[c].state = "closed"
                   /\ clients'[c].cleared /\ clients'[c].name = NoName]_vars

\* both observers of a client were called, the room it joined first having the greater
\* id, and its connection is closed while it is still active
C21_Witness ==
    /\ destroying.pc = "closing"
    /\ Len(destroying.called) = 2
    /\ destroying.called[1] > destroying.called[2]
    /\ clients[destroying.c].is_active
    /\ conn[destroying.c].state = "closed"

\* C22: destroy calls the observers of its snapshot one by one: what it has called is a
\* prefix of the snapshot without a repetition, the observers called have unregistered
\* themselves from the live list and the others are still on it, and when the loop is
\* over every observer of the snapshot has been called once.
C22_SnapshotIteration ==
    /\ [](LET d == destroying
          IN d.pc \in {"notify", "closing"} =>
                /\ Len(d.called) <= Len(d.snapshot)
                /\ \A i \in DOMAIN d.called : d.called[i] = d.snapshot[i]
                /\ \A i, j \in DOMAIN d.called : i # j => d.called[i] # d.called[j]
                /\ clients[d.c].callbacks =
                      SubSeq(d.snapshot, Len(d.called) + 1, Len(d.snapshot))
                /\ d.pc = "closing" => Len(d.called) = Len(d.snapshot))
    /\ [][destroying.pc = "notify" =>
             \/ /\ destroying'.pc = "notify"
                /\ destroying'.snapshot = destroying.snapshot
                /\ Len(destroying'.called) = Len(destroying.called) + 1
             \/ /\ destroying'.pc = "closing"
                /\ destroying'.called = destroying.snapshot]_vars

\* the first of two observers was called and has unregistered itself; the second is
\* still to be called
C22_Witness ==
    /\ destroying.pc = "notify"
    /\ Len(destroying.snapshot) = 2 /\ Len(destroying.called) = 1
    /\ clients[destroying.c].callbacks = <<destroying.snapshot[2]>>
    /\ ~InRoom(destroying.c, destroying.snapshot[1])
    /\ InRoom(destroying.c, destroying.snapshot[2])

\* C23: every observer destroy is about to call is the remove routine of a room the
\* client is a member of and is on the client's observer list, so no destroy call ends
\* with the ValueError of Room.remove or of unregister_on_destroy.
C23_DestroyNeverFails ==
    /\ last.op = "destroy" => last.err \in {OK, "running"}
    /\ LET d == destroying
       IN (d.pc = "notify" /\ destroy_next(clients, d) # NoRoom) =>
             /\ InRoom(d.c, destroy_next(clients, d))
             /\ destroy_next(clients, d) \in Range(clients[d.c].callbacks)

\* destroy has returned for a client that was a member of a room, after another client
\* had been destroyed, and a room has a member left
C23_Witness ==
    /\ last.op = "destroy" /\ last.arg = "active" /\ last.err = OK
    /\ destroying = NotDestroying
    /\ clients[last.c].cleared
    /\ \E d \in Conns : d # last.c /\ clients[d].cleared
    /\ Cardinality(DOMAIN rooms_by_id) >= 2

\* C24: a Room.remove call on room k for a member c takes c, and nobody else, out of k,
\* takes k's observer, and no other, off c's list, and touches no other room or client;
\* for a client that is not a member of k it raises ValueError and changes no room and
\* no client.
C24_RemoveExact ==
    [][last'.op = "remove" =>
          LET k == last'.room
              c == last'.c
          IN IF c \in rooms_by_id[k].clients
             THEN /\ last'.err = OK
                  /\ rooms_by_id' = [rooms_by_id EXCEPT ![k].clients = @ \ {c}]
                  /\ clients' = [clients EXCEPT ![c].callbacks =
                                    SelectSeq(@, LAMBDA x : x # k)]
                  /\ Len(clients'[c].callbacks) = Len(clients[c].callbacks) - 1
             ELSE /\ last'.err = "ValueError"
                  /\ UNCHANGED <<rooms_by_id, clients>>]_vars

\* a client was removed from a room that keeps another member, and keeps the observer of
\* another room
C24_Witness ==
    /\ last.op = "remove" /\ last.err = OK
    /\ ~InRoom(last.c, last.room)
    /\ rooms_by_id[last.room].clients # {}
    /\ Len(clients[last.c].callbacks) = 1
    /\ last.room \notin Range(clients[last.c].callbacks)

\* C25: a Room.add call for an inactive client fails with InactiveClientJoinAttempt,
\* whatever the names in the room; for an active client whose name a member of the room
\* holds it fails with NameInRoomOccupied; a failed call changes no room and no client,
\* and any other call inserts the client and appends the room's observer.
C25_RejectedAddChangesNothing ==
    [][last'.op = "add" =>
          LET k == last'.room
              c == last'.c
          IN IF ~clients[c].is_active
             THEN /\ last'.err = "InactiveClientJoinAttempt"
                  /\ UNCHANGED <<rooms_by_id, clients>>
             ELSE IF \E d \in rooms_by_id[k].clients : clients[d].name = clients[c].name
             THEN /\ last'.err = "NameInRoomOccupied"
                  /\ UNCHANGED <<rooms_by_id, clients>>
             ELSE /\ last'.err = OK
                  /\ rooms_by_id' = [rooms_by_id EXCEPT ![k].clients = @ \cup {c}]
                  /\ clients' = [clients EXCEPT ![c].callbacks = Append(@, k)]]_vars

\* a destroyed client was refused by a room that has a member
C25_Witness ==
    /\ last.op = "add" /\ last.err = "InactiveClientJoinAttempt"
    /\ clients[last.c].made /\ ~clients[last.c].is_active
    /\ clients[last.c].callbacks = <<>>
    /\ rooms_by_id[last.room].clients # {}
    /\ ~InSomeRoom(last.c)

\* C26: an unregister_on_destroy call with an observer that is not on the list raises
\* ValueError and leaves the list as it was; with an observer that is on the list it
\* takes one occurrence of it out and leaves the others in their order; nothing else of
\* the client changes.
C26_UnregisterExact ==
    [][last'.op = "unregister_on_destroy" =>
          LET c == last'.c
              k == last'.room
              cb == clients[c].callbacks
          IN /\ clients' = [clients EXCEPT ![c].callbacks = clients'[c].callbacks]
             /\ IF k \in Range(cb)
                THEN /\ last'.err = OK
                     /\ \E i \in DOMAIN cb :
                           /\ cb[i] = k
                           /\ clients'[c].callbacks =
                                 SubSeq(cb, 1, i - 1) \o SubSeq(cb, i + 1, Len(cb))
                ELSE /\ last'.err = "ValueError"
                     /\ clients'[c].callbacks = cb]_vars

\* one of two occurrences of an observer was taken off a list that holds another
\* observer too
C26_Witness ==
    /\ last.op = "unregister_on_destroy" /\ last.err = OK
    /\ last.room \in Range(clients[last.c].callbacks)
    /\ \E i \in DOMAIN clients[last.c].callbacks : clients[last.c].callbacks[i] # last.room

\* C27: in the step that takes the client of session s out of its room, the room is left
\* with as many members as the online_count of the ROOM_LEAVE event s's handler has
\* broadcast (in that step when the peer disconnected, before its error report when the
\* message loop failed).
C27_LeaveCountPostRemoval ==
    [][\A s \in Conns :
          (room_of[s] # NoRoom /\ InRoom(s, room_of[s]) /\ ~InRoom(s, room_of[s])') =>
             IF announced[s] # NotAnnounced
             THEN announced[s] = RoomLen(rooms_by_id', room_of[s])
             ELSE /\ bcast'.msg.event = "ROOM_LEAVE"
                  /\ bcast'.msg.online_count = RoomLen(rooms_by_id', room_of[s])]_vars

\* C28: the step that broadcasts the ROOM_JOIN of session s finds s's client in the room
\* its Room.add put it in, with the ROOM_INFO event sent; the event carries s's name and
\* the number of members the room has at that step, s counted, and it is handed to every
\* one of these members, s included.
C28_JoinAfterAdd ==
    [][\A s \in Conns :
          (last'.op = "handle_messaging" /\ last'.c = s /\ last'.arg = "ROOM_JOIN") =>
             LET k == room_of[s]
                 a == bcast'.attempts
             IN /\ pc[s] = "send_room_info"
                /\ k # NoRoom /\ InRoom(s, k) /\ k \in Range(clients[s].callbacks)
                /\ sent' = [to |-> s, event |-> "ROOM_INFO", ok |-> TRUE]
                /\ bcast'.room = k
                /\ bcast'.msg = Event("ROOM_JOIN", clients[s].name,
                                      Cardinality(rooms_by_id[k].clients), "")
                /\ bcast'.msg.online_count >= 1
                /\ {a[i].to : i \in DOMAIN a} = rooms_by_id[k].clients
                /\ \E i \in DOMAIN a : a[i].to = s /\ a[i].ok
                /\ UNCHANGED rooms_by_id]_vars

\* a session announced its join with online_count = 2 while the other member of the
\* room, added in the meantime or before, has not announced its own yet
C28_Witness ==
    /\ last.op = "handle_messaging" /\ last.arg = "ROOM_JOIN"
    /\ bcast.msg.event = "ROOM_JOIN" /\ bcast.msg.online_count = 2
    /\ \E d \in Conns :
          /\ d # last.c
          /\ InRoom(d, bcast.room) /\ InRoom(last.c, bcast.room)
          /\ pc[d] = "send_room_info"
          /\ \E i \in DOMAIN bcast.attempts : bcast.attempts[i].to = d

C30_MessageRebroadcast ==
    [][(last'.op = "handle_messaging" /\ last'.arg = "ROOM_MESSAGE") =>
          LET s == last'.c
              k == room_of[s]
              a == bcast'.attempts
              to == {a[i].to : i \in DOMAIN a}
          IN /\ k \in DOMAIN rooms_by_id
             /\ s \in rooms_by_id[k].clients
             /\ bcast'.room = k
             /\ bcast'.msg = Event("ROOM_MESSAGE", clients[s].name, 0, last'.text)
             /\ to = rooms_by_id[k].clients
             /\ s \in to
             /\ \A i, j \in DOMAIN a : a[i].to = a[j].to => i = j
             /\ \A i \in DOMAIN a : a[i].msg = bcast'.msg
             /\ \A j \in DOMAIN rooms_by_id \ {k} : rooms_by_id[j].clients \cap to = {}
             /\ rooms_by_id' = rooms_by_id /\ clients' = clients]_vars

\* the text "bye" of a member was just rebroadcast to it and to another member of its room
C30_Witness ==
    /\ last.op = "handle_messaging" /\ last.arg = "ROOM_MESSAGE" /\ last.text = "bye"
    /\ bcast.msg.message = "bye"
    /\ \E c \in Conns \ {last.c} :
          /\ InRoom(c, last.room) /\ InRoom(last.c, last.room)
          /\ \E i, j \in DOMAIN bcast.attempts :
                /\ bcast.attempts[i].to = c /\ bcast.attempts[i].ok
                /\ bcast.attempts[j].to = last.c /\ bcast.attempts[j].ok

\* C31: the step in which the message loop sees the disconnect also broadcasts ROOM_LEAVE
\* and runs the observers of Client.destroy, so the client is in no room afterwards and
\* only the close of its connection is left; a session that left the loop never receives
\* again, and broadcasts no ROOM_MESSAGE.
C31_DisconnectShortCircuits ==
    [][/\ (/\ last'.op = "handle_messaging"
           /\ last'.arg = "ROOM_LEAVE"
           /\ last'.err = "ClientDisconnected") =>
              LET s == last'.c
              IN /\ pc[s] = "recv_message"
                 /\ bcast'.room = room_of[s]
                 /\ bcast'.msg.event = "ROOM_LEAVE"
                 /\ bcast'.msg.sender = clients[s].name
                 /\ \A k \in DOMAIN rooms_by_id' : s \notin rooms_by_id'[k].clients
                 /\ pc'[s] \in {"destroy_close", "done"}
                 /\ sent' = NoSend
       /\ \A s \in Conns :
             /\ (pc[s] = "recv_message" /\ conn[s].state # "open" /\ pc'[s] # pc[s]) =>
                   (last'.op = "handle_messaging" /\ last'.arg = "ROOM_LEAVE" /\ last'.c = s)
             /\ pc[s] \in {"destroy_close", "destroy_close_raising", "done", "raised",
                           "report_error_messaging"} =>
                   /\ pc'[s] # "recv_message"
                   /\ ~(last'.op = "handle_messaging" /\ last'.arg = "ROOM_MESSAGE"
                        /\ last'.c = s)
             /\ (last'.op = "handle_messaging" /\ last'.arg = "ROOM_MESSAGE" /\ last'.c = s) =>
                   conn[s].state = "open"]_vars

\* a session has just seen the disconnect in its loop: its ROOM_LEAVE reached the member
\* that stays in the room, and its client is out of the room with only the close pending
C31_Witness ==
    /\ last.op = "handle_messaging" /\ last.arg = "ROOM_LEAVE"
    /\ last.err = "ClientDisconnected"
    /\ pc[last.c] = "destroy_close"
    /\ ~InSomeRoom(last.c)
    /\ \E i \in DOMAIN bcast.attempts :
          /\ bcast.attempts[i].to # last.c
          /\ bcast.attempts[i].ok
          /\ InRoom(bcast.attempts[i].to, last.room)

\* C32: a stage that fails with ClientDisconnected leaves no report pending and sends no
\* ERROR event; a stage that fails with any other cause leaves one report pending, the
\* pending report makes one ERROR send on the session's own connection, and a session
\* never has a second report.
ReportPending(p) ==
    p \in {"report_error_request", "report_error_entry", "report_error_messaging"}

C32_DisconnectNotReported ==
    [][/\ sent'.event = "ERROR" =>
             /\ ReportPending(pc[sent'.to])
             /\ exc[sent'.to] \notin {"none", "ClientDisconnected"}
             /\ ~ReportPending(pc'[sent'.to])
       /\ (last'.op \in {"receive_room_entry_request", "process_room_entry",
                         "handle_messaging"} /\ last'.err = "ClientDisconnected") =>
             /\ sent'.event # "ERROR"
             /\ ~ReportPending(pc'[last'.c])
             /\ exc'[last'.c] = "none"
       /\ (last'.op \in {"receive_room_entry_request", "process_room_entry",
                         "handle_messaging"} /\ last'.err \notin {OK, "ClientDisconnected"}) =>
             /\ ReportPending(pc'[last'.c])
             /\ exc'[last'.c] = last'.err
             /\ sent'.event # "ERROR"
       /\ \A s \in Conns :
             /\ (ReportPending(pc[s]) /\ pc'[s] # pc[s]) =>
                   /\ sent'.event = "ERROR" /\ sent'.to = s
                   /\ pc'[s] \in {"done", "raised", "destroy_close", "destroy_close_raising"}
             /\ (~ReportPending(pc[s]) /\ ReportPending(pc'[s])) =>
                   /\ pc[s] \in {"recv_entry", "recv_message"}
                   /\ last'.c = s /\ last'.err \notin {OK, "ClientDisconnected"}
             /\ pc[s] \in {"done", "raised", "destroy_close", "destroy_close_raising"} =>
                   pc'[s] \in {"done", "raised", "destroy_close", "destroy_close_raising"}]_vars

\* the ROOM_INFO send of a session has just failed on a disconnect: the session has ended
\* with no report pending
C32_Witness ==
    /\ last.op = "process_room_entry" /\ last.err = "ClientDisconnected"
    /\ sent.event = "ROOM_INFO" /\ ~sent.ok
    /\ pc[last.c] = "done"
    /\ \E s \in Conns \ {last.c} : sent.to # s /\ ReportPending(pc[s])

\* C33: no call takes a room out of the index or changes the id it is registered under;
\* a registered room without members is returned by allocate_room(ID) for its id, and
\* allocate_room(RANDOM) returns a room without members while there is one, the first of
\* them in the index, creating nothing.
C33_RoomsNeverRemoved ==
    [][/\ DOMAIN rooms_by_id \subseteq DOMAIN rooms_by_id'
       /\ \A k \in DOMAIN rooms_by_id :
             /\ rooms_by_id'[k].id = rooms_by_id[k].id
             /\ rooms_by_id'[k].pos = rooms_by_id[k].pos
       /\ (/\ last'.op = "allocate_room" /\ last'.arg = "ID"
           /\ last'.id \in DOMAIN rooms_by_id
           /\ RoomLen(rooms_by_id, last'.id) = 0) =>
              /\ last'.err = OK /\ last'.room = last'.id
              /\ rooms_by_id' = rooms_by_id
       /\ (/\ last'.op = "allocate_room" /\ last'.arg = "RANDOM"
           /\ \E k \in DOMAIN rooms_by_id : RoomLen(rooms_by_id, k) = 0) =>
              /\ last'.err = OK
              /\ last'.room \in DOMAIN rooms_by_id
              /\ RoomLen(rooms_by_id, last'.room) = 0
              /\ \A k \in DOMAIN rooms_by_id :
                    RoomLen(rooms_by_id, k) = 0 =>
                       rooms_by_id[last'.room].pos <= rooms_by_id[k].pos
              /\ rooms_by_id' = rooms_by_id]_vars

\* allocate_room(RANDOM) has just returned a room that a destroyed client left empty,
\* while the other room has a member
C33_Witness ==
    /\ last.op = "allocate_room" /\ last.arg = "RANDOM" /\ last.err = OK
    /\ RoomLen(rooms_by_id, last.room) = 0
    /\ \E j \in DOMAIN rooms_by_id : RoomLen(rooms_by_id, j) > 0
    /\ \E c \in Conns : clients[c].made /\ ~clients[c].is_active

\* C34: ROOM_INFO is a send on the connection of the session that asked to enter, made
\* once the client is a member of the room, and never a broadcast; the session's ROOM_JOIN
\* is broadcast only when that send was made, and no ROOM_INFO follows it.
C34_RoomInfoToJoinerOnly ==
    [][/\ sent'.event = "ROOM_INFO" =>
             LET s == sent'.to
             IN /\ last'.c = s
                /\ pc[s] = "send_room_info"
                /\ InRoom(s, room_of[s])
                /\ pc'[s] \in {"recv_message", "done"}
                /\ bcast' # NoBcast =>
                      /\ sent'.ok
                      /\ bcast'.msg.event = "ROOM_JOIN"
                      /\ bcast'.msg.sender = clients[s].name
                      /\ bcast'.room = room_of[s]
       /\ bcast' # NoBcast => bcast'.msg.event # "ROOM_INFO"
       /\ (last'.op = "handle_messaging" /\ last'.arg = "ROOM_JOIN") =>
             /\ sent' = [to |-> last'.c, event |-> "ROOM_INFO", ok |-> TRUE]
             /\ bcast'.msg.event = "ROOM_JOIN"
             /\ pc[last'.c] = "send_room_info"
       /\ \A s \in Conns :
             pc[s] # "send_room_info" => pc'[s] # "send_room_info" \/ pc[s] = "recv_entry"]_vars

\* a session has just been sent its ROOM_INFO and its ROOM_JOIN reached the other member
\* of the room, which was sent nothing directly
C34_Witness ==
    /\ last.op = "handle_messaging" /\ last.arg = "ROOM_JOIN"
    /\ sent.event = "ROOM_INFO" /\ sent.to = last.c /\ sent.ok
    /\ \E i \in DOMAIN bcast.attempts :
          /\ bcast.attempts[i].to # last.c
          /\ bcast.attempts[i].ok
          /\ bcast.attempts[i].msg.event = "ROOM_JOIN"

\* how far the handler of a connection has come
Stage(p) ==
    CASE p = "recv_entry" -> 0
      [] p \in {"report_error_request", "report_error_entry", "send_room_info"} -> 1
      [] p = "recv_message" -> 2
      [] p = "report_error_messaging" -> 3
      [] p \in {"destroy_close", "destroy_close_raising"} -> 4
      [] OTHER -> 5

\* C35: a handler never goes back to an earlier stage; it broadcasts ROOM_JOIN only on
\* entering the message loop and ROOM_LEAVE only on leaving it, so at most once each, and
\* ROOM_LEAVE only after it entered; the ROOM_LEAVE goes to the members the room has while
\* the leaving client is still one of them, the leaving client's connection included.
C35_OneJoinOneLeave ==
    [][/\ \A s \in Conns : Stage(pc'[s]) >= Stage(pc[s])
       /\ (bcast' # NoBcast /\ bcast'.msg.event \in {"ROOM_JOIN", "ROOM_LEAVE"}) =>
             /\ last'.op = "handle_messaging"
             /\ last'.arg = bcast'.msg.event
             /\ bcast'.msg.sender = clients[last'.c].name
       /\ (last'.op = "handle_messaging" /\ last'.arg = "ROOM_JOIN") =>
             /\ Stage(pc[last'.c]) = 1
             /\ Stage(pc'[last'.c]) = 2
       /\ (last'.op = "handle_messaging" /\ last'.arg = "ROOM_LEAVE") =>
             LET s == last'.c
                 a == bcast'.attempts
             IN /\ Stage(pc[s]) = 2
                /\ Stage(pc'[s]) > 2
                /\ bcast'.msg.event = "ROOM_LEAVE"
                /\ bcast'.room = room_of[s]
                /\ InRoom(s, room_of[s])
                /\ clients[s].is_active
                /\ {a[i].to : i \in DOMAIN a} = rooms_by_id[room_of[s]].clients
                /\ \E i \in DOMAIN a : a[i].to = s]_vars

\* a session has just broadcast its ROOM_LEAVE and received it itself: its client is
\* still a member, the destroy being still to come
C35_Witness ==
    /\ last.op = "handle_messaging" /\ last.arg = "ROOM_LEAVE"
    /\ bcast.msg.event = "ROOM_LEAVE"
    /\ InRoom(last.c, last.room)
    /\ clients[last.c].is_active
    /\ pc[last.c] = "report_error_messaging"
    /\ \E i \in DOMAIN bcast.attempts : bcast.attempts[i].to = last.c /\ bcast.attempts[i].ok

\* C36: once Client.destroy has called its observers, the client is in none of the rooms
\* it was a member of, has_name finds its name there only if another member holds it, and
\* Room.add of a new active client with that name to such a room succeeds.
C36_NameReleased ==
    (\/ destroying.pc = "closing"
     \/ destroying.pc = "notify" /\ destroy_next(clients, destroying) = NoRoom) =>
        LET c == destroying.c
            nm == clients[c].name
        IN \A k \in Range(destroying.snapshot) :
              /\ c \notin rooms_by_id[k].clients
              /\ has_name(rooms_by_id, clients, k, nm) =>
                    \E d \in rooms_by_id[k].clients \ {c} : clients[d].name = nm
              /\ \A d \in Conns \ {c} :
                    (/\ ~InSomeRoom(d)
                     /\ ~\E e \in rooms_by_id[k].clients : clients[e].name = nm) =>
                        LET r == Room_add(rooms_by_id, [clients EXCEPT ![d] = Client(nm)], k, d)
                        IN /\ r.err = OK
                           /\ d \in r.rooms[k].clients
                           /\ has_name(r.rooms, r.clients, k, nm)

\* the observers of a client that was a member of two rooms have run, its connection is
\* being closed, and another connection is in no room
C36_Witness ==
    /\ destroying.pc = "closing"
    /\ Len(destroying.snapshot) = 2
    /\ clients[destroying.c].name \in Names
    /\ \E d \in Conns \ {destroying.c} : ~InSomeRoom(d)

====
